---------------------------- MODULE Spec2Model ----------------------------
(***************************************************************************)
(* A model of mockgen's code-synthesis engine (src/mockgen/mockgen.go):    *)
(* the identifier allocator, the import alias resolution of Generate, the  *)
(* naming of parameters, the three per-method blocks, the order in which   *)
(* blocks are emitted, and main's write of the formatted output.           *)
(*                                                                         *)
(* Go strings that the program scans or compares byte by byte (import      *)
(* paths, interface and method names) are sequences of one-character       *)
(* strings; Str turns one into the text that is emitted.  Every other Go   *)
(* string (aliases, identifiers, emitted lines) is a TLA+ string.          *)
(***************************************************************************)
EXTENDS Integers, Sequences, FiniteSets, TLC

VARIABLES
    \* ---- identifierAllocator (the allocator specification) ----
    ia,          \* the identifierAllocator map: the set of its keys
    iaBefore,    \* the key set before the last allocateIdentifier call
    iaWant,      \* the argument of the last allocateIdentifier call
    iaId,        \* the result of the last allocateIdentifier call
    \* ---- flags and the arguments of Generate ----
    selfPackage,       \* *selfPackage: an import path, <<>> when not given
    typed,             \* *typed
    importsFlag,       \* *imports: the name=path pairs, in order
    goList,            \* what `go list` answers: import path -> package name
    pkg,               \* the model.Package handed to Generate
    pkgIn,             \* the same as it was when it was handed over
    outputPkgName,     \* Generate's outputPkgName
    outputPackagePathIn,  \* Generate's outputPackagePath, as handed over
    \* ---- the generator and Generate's locals ----
    pc,                \* where the run is
    outputPackagePath, \* Generate's outputPackagePath after lines 332-335
    sortedPaths,
    packagesName,
    definedImports,
    localNames,
    x,                 \* how many of sortedPaths the alias loop has done
    intfIdx,           \* how many of pkg.Interfaces have been generated
    packageMap,        \* g.packageMap
    buf,               \* g.buf: the lines written by g.p
    imported,          \* the import lines emitted, in order: alias and path
    blocks,            \* the interface and method blocks emitted, in order
    scopes,            \* per emitted function: its parameters and allocated identifiers
    \* ---- main after Generate, and the destination file ----
    destination,       \* whether -destination is given
    formatFails,       \* whether imports.Process rejects the text Generate wrote
    run,               \* which run of the program this is
    output,            \* g.Output()
    fs,                \* the destination: its directory, the file and its lines
    stdout,            \* the lines written to os.Stdout
    fileOps,           \* the os.Create and Write calls on the destination, by run
    runs               \* how each earlier run ended, and the destination it left

allocVars == <<ia, iaBefore, iaWant, iaId>>
inputVars == <<selfPackage, typed, importsFlag, goList, outputPkgName, outputPackagePathIn, pkgIn>>
genVars == <<pkg, pc, outputPackagePath, sortedPaths, packagesName, definedImports,
             localNames, x, intfIdx, packageMap, buf, imported, blocks, scopes>>
mainVars == <<destination, formatFails, run, output, fs, stdout, fileOps, runs>>
vars == <<allocVars, inputVars, genVars, mainVars>>

(***************************************************************************)
(* Bounds of the model.                                                    *)
(***************************************************************************)
\* most names in the seed slice of newIdentifierAllocator
MaxSeed == 2
\* allocateIdentifier is not called on a map with this many keys
MaxTaken == 5
\* most import paths of the package model
MaxImports == 3
\* most fixed input parameters and most output parameters of a drawn method
MaxIn == 2
MaxOut == 1
\* the program is run this many times on the same input
MaxRuns == 2
\* a Write that fails leaves at most this many lines of the output written
MaxPartial == 1
\* the longest lists of fixed parameters and of results of the argument-string
\* specification
MaxArgs == 3
MaxRets == 2
\* the longest final segment of an import path of the sanitize specification
MaxSegment == 3

(***************************************************************************)
(* Strings.                                                                *)
(***************************************************************************)
\* the sequences over S of length at most n
RECURSIVE SeqsUpTo(_, _)
SeqsUpTo(S, n) ==
    IF n = 0 THEN {<<>>}
    ELSE LET shorter == SeqsUpTo(S, n - 1)
         IN  shorter \cup {Append(s, e) : s \in {t \in shorter : Len(t) = n - 1}, e \in S}

\* the elements of a sequence
Range(s) == {s[i] : i \in DOMAIN s}

\* strconv.Itoa on the non-negative integers the program formats
Itoa(n) == ToString(n)

\* strings.Join
RECURSIVE Join(_, _)
Join(elems, sep) ==
    IF Len(elems) = 0 THEN ""
    ELSE IF Len(elems) = 1 THEN elems[1]
    ELSE elems[1] \o sep \o Join(Tail(elems), sep)

(***************************************************************************)
(* identifierAllocator.                                                    *)
(***************************************************************************)
newIdentifierAllocator(taken) == Range(taken)

\* the loop of allocateIdentifier: id is the candidate, i the next suffix
RECURSIVE allocateLoop(_, _, _, _)
allocateLoop(o, want, id, i) ==
    IF id \notin o THEN id
    ELSE allocateLoop(o, want, want \o "_" \o Itoa(i), i + 1)

\* the bug of counting the suffixes from 1
allocateIdentifierFromOne(o, want) == allocateLoop(o, want, want, 1)

\* the identifier allocateIdentifier returns; the map then also holds it
allocateIdentifier(o, want) == allocateLoop(o, want, want, 2)

\* allocateIdentifier called for each of wants in turn, on the same map
RECURSIVE allocateAll(_, _)
allocateAll(o, wants) ==
    IF Len(wants) = 0 THEN <<>>
    ELSE LET id == allocateIdentifier(o, wants[1])
         IN  <<id>> \o allocateAll(o \cup {id}, Tail(wants))

(***************************************************************************)
(* Go strings as sequences of characters.                                  *)
(***************************************************************************)
\* the characters of the model, in byte order
Alphabet ==
    <<"-", ".", "/", "0", "1", "2", "A", "B", "C", "_",
      "a", "b", "c", "d", "e", "f", "g", "h", "i", "j", "k", "l", "m", "n", "o",
      "p", "q", "r", "s", "t", "u", "v", "w", "x", "y", "z">>

Code(c) == CHOOSE i \in 1..Len(Alphabet) : Alphabet[i] = c

\* unicode.IsLetter and unicode.IsDigit on the characters of the model
IsLetter(c) == Code(c) \in (Code("A")..Code("C")) \cup (Code("a")..Code("z"))
IsDigit(c) == Code(c) \in Code("0")..Code("2")

\* the text of a character sequence
RECURSIVE Str(_)
Str(s) == IF Len(s) = 0 THEN "" ELSE s[1] \o Str(Tail(s))

\* s < t on Go strings: byte-wise lexicographic
RECURSIVE StrLess(_, _)
StrLess(s, t) ==
    IF Len(t) = 0 THEN FALSE
    ELSE IF Len(s) = 0 THEN TRUE
    ELSE IF s[1] = t[1] THEN StrLess(Tail(s), Tail(t))
    ELSE Code(s[1]) < Code(t[1])

\* sort.Strings on a slice holding each string of S once
RECURSIVE SortStrings(_)
SortStrings(S) ==
    IF S = {} THEN <<>>
    ELSE LET least == CHOOSE m \in S : \A o \in S \ {m} : StrLess(m, o)
         IN  <<least>> \o SortStrings(S \ {least})

\* fmt's %q of a string without characters to escape
Quote(s) == "\"" \o Str(s) \o "\""

\* path.Base
RECURSIVE TrimSlashes(_)
TrimSlashes(s) ==
    IF Len(s) > 0 /\ s[Len(s)] = "/" THEN TrimSlashes(SubSeq(s, 1, Len(s) - 1)) ELSE s

RECURSIVE AfterLastSlash(_)
AfterLastSlash(s) ==
    IF \E i \in DOMAIN s : s[i] = "/" THEN AfterLastSlash(Tail(s)) ELSE s

pathBase(pth) ==
    IF Len(pth) = 0 THEN <<".">>
    ELSE LET trimmed == TrimSlashes(pth)
         IN  IF Len(trimmed) = 0 THEN <<"/">> ELSE AfterLastSlash(trimmed)

\* the loop of sanitize: t is the text built from the first characters of s
RECURSIVE sanitizeLoop(_, _)
sanitizeLoop(s, t) ==
    IF Len(s) = 0 THEN t
    ELSE LET r == s[1]
             keep == IF t = "" THEN IsLetter(r) \/ r = "_"
                     ELSE IsLetter(r) \/ IsDigit(r) \/ r = "_"
         IN  sanitizeLoop(Tail(s), IF keep THEN t \o r ELSE t \o "_")

\* the bug of dropping the characters that sanitize replaces
RECURSIVE stripLoop(_, _)
stripLoop(s, t) ==
    IF Len(s) = 0 THEN t
    ELSE LET r == s[1]
             keep == IF t = "" THEN IsLetter(r) \/ r = "_"
                     ELSE IsLetter(r) \/ IsDigit(r) \/ r = "_"
         IN  stripLoop(Tail(s), IF keep THEN t \o r ELSE t)

sanitizeStripping(s) ==
    LET t == stripLoop(s, "")
    IN  IF t = "" \/ t = "_" THEN "x" ELSE t

\* sanitize (lines 309-329)
sanitize(s) ==
    LET t == sanitizeLoop(s, "")
    IN  IF t = "_" THEN "x" ELSE t

(***************************************************************************)
(* The package model (go.uber.org/mock/mockgen/model) as Generate uses it. *)
(***************************************************************************)
Nil == [nil |-> TRUE]

\* a predeclared type has no package
Predeclared(name) == [Package |-> <<>>, Type |-> name]
Named(path, name) == [Package |-> path, Type |-> name]

\* Type.String(pm, pkgOverride) of a predeclared or named type
TypeString(t, pm, pkgOverride) ==
    IF Len(t.Package) = 0 \/ pkgOverride = t.Package THEN t.Type
    ELSE IF t.Package \in DOMAIN pm /\ pm[t.Package] # "" THEN pm[t.Package] \o "." \o t.Type
    ELSE t.Type

\* Package.Imports(): a fresh set of the model's import paths
Imports(p) == p.Imports

(***************************************************************************)
(* Generate: the required imports and their aliases (lines 372-438).       *)
(***************************************************************************)
gomockImportPath ==
    <<"g", "o", ".", "u", "b", "e", "r", ".", "o", "r", "g", "/",
      "m", "o", "c", "k", "/", "g", "o", "m", "o", "c", "k">>

reflectPath == <<"r", "e", "f", "l", "e", "c", "t">>

\* token.Lookup(name).IsKeyword()
Keywords ==
    {"break", "case", "chan", "const", "continue", "default", "defer", "else",
     "fallthrough", "for", "func", "go", "goto", "if", "import", "interface",
     "map", "package", "range", "return", "select", "struct", "switch", "type",
     "var"}

IsKeyword(name) == name \in Keywords

\* the bug of dropping the path whenever -self_package is not given
resetWithoutSelfPackage(outPkgName, pkgName, selfPkg, outPath) ==
    IF Len(selfPkg) = 0 THEN <<>> ELSE outPath

\* the output package path Generate works with (lines 332-335)
resetOutputPackagePath(outPkgName, pkgName, selfPkg, outPath) ==
    IF outPkgName # Str(pkgName) /\ Len(selfPkg) = 0 THEN <<>> ELSE outPath

\* the bug of adding reflect whether or not any interface has a method
requiredImportsAlwaysReflect(p) == Imports(p) \cup {gomockImportPath, reflectPath}

\* im of Generate (lines 373-383)
requiredImports(p) ==
    Imports(p) \cup {gomockImportPath}
        \cup (IF \E i \in DOMAIN p.Interfaces : Len(p.Interfaces[i].Methods) > 0
              THEN {reflectPath} ELSE {})

\* createPackageMap: the names `go list` gave for the paths asked about
createPackageMap(importPaths, answers) ==
    [pth \in DOMAIN answers \cap Range(importPaths) |-> answers[pth]]

\* definedImports of Generate (lines 396-404): kv is <<name, path>>
RECURSIVE parseImports(_, _)
parseImports(kvs, defined) ==
    IF Len(kvs) = 0 THEN defined
    ELSE LET k == kvs[1][1]
             v == kvs[1][2]
         IN  parseImports(Tail(kvs),
                 IF k # "." THEN [q \in DOMAIN defined \cup {v} |->
                                     IF q = v THEN k ELSE defined[q]]
                 ELSE defined)

\* the disambiguation loop (lines 425-429)
RECURSIVE aliasLoop(_, _, _, _)
aliasLoop(names, base, pkgName, i) ==
    IF pkgName \in names \/ IsKeyword(pkgName) \/ pkgName = "any"
    THEN aliasLoop(names, base, base \o Itoa(i), i + 1)
    ELSE pkgName

\* the bug of not looking at the names already given out
localNameIgnoringTaken(pth, names, pkgNames, defined) ==
    LET base == IF pth \in DOMAIN pkgNames THEN pkgNames[pth] ELSE sanitize(pathBase(pth))
    IN  aliasLoop({}, base, IF pth \in DOMAIN defined THEN defined[pth] ELSE base, 0)

\* pkgName of one pass of the loop over sortedPaths (lines 409-429)
localName(pth, names, pkgNames, defined) ==
    LET base == IF pth \in DOMAIN pkgNames THEN pkgNames[pth] ELSE sanitize(pathBase(pth))
    IN  aliasLoop(names, base, IF pth \in DOMAIN defined THEN defined[pth] ELSE base, 0)

(***************************************************************************)
(* Parameter names and types (lines 578-589, 786-840).                     *)
(***************************************************************************)
nameExistsAsPackage(name, pm) == \E pth \in DOMAIN pm : pm[pth] = name

getArgNames(m, in, pm) ==
    LET params == IF in THEN m.In ELSE m.Out
        argNames == [i \in 1..Len(params) |->
                        IF params[i].Name = "" \/ params[i].Name = "_"
                               \/ nameExistsAsPackage(params[i].Name, pm)
                        THEN "arg" \o Itoa(i - 1)
                        ELSE params[i].Name]
    IN  IF m.Variadic # Nil /\ in
        THEN Append(argNames,
                    IF m.Variadic.Name = "" \/ nameExistsAsPackage(m.Variadic.Name, pm)
                    THEN "arg" \o Itoa(Len(params))
                    ELSE m.Variadic.Name)
        ELSE argNames

getArgTypes(m, pkgOverride, in, pm) ==
    LET params == IF in THEN m.In ELSE m.Out
        argTypes == [i \in 1..Len(params) |-> TypeString(params[i].Type, pm, pkgOverride)]
    IN  IF m.Variadic # Nil
        THEN Append(argTypes, "..." \o TypeString(m.Variadic.Type, pm, pkgOverride))
        ELSE argTypes

\* the bug of never leaving a type out
makeArgStringAllTyped(argNames, argTypes) ==
    Join([i \in 1..Len(argNames) |-> argNames[i] \o " " \o argTypes[i]], ", ")

\* makeArgString (lines 578-589)
makeArgString(argNames, argTypes) ==
    Join([i \in 1..Len(argNames) |->
             IF i + 1 <= Len(argTypes) /\ argTypes[i] = argTypes[i + 1]
             THEN argNames[i]
             ELSE argNames[i] \o " " \o argTypes[i]],
         ", ")

\* g.mockName with no -mock_names given
mockName(typeName) == "Mock" \o typeName

\* all but the last element
Front(s) == SubSeq(s, 1, Len(s) - 1)

(***************************************************************************)
(* The three blocks of a method.  Each operator gives the lines written    *)
(* by g.p and, per function it emits, the parameter names of its signature *)
(* and the identifiers it took from the identifier allocator.              *)
(***************************************************************************)
Scope(fn, method, params, ids) ==
    [fn |-> fn, method |-> method, params |-> params, ids |-> ids]

\* GenerateMockMethod (lines 593-656)
GenerateMockMethod(mockType, m, pkgOverride, shortTp, pm) ==
    LET argNames == getArgNames(m, TRUE, pm)
        argTypes == getArgTypes(m, pkgOverride, TRUE, pm)
        argString == makeArgString(argNames, argTypes)
        rets == [i \in 1..Len(m.Out) |-> TypeString(m.Out[i].Type, pm, pkgOverride)]
        joined == Join(rets, ", ")
        parens == IF Len(rets) > 1 THEN "(" \o joined \o ")" ELSE joined
        retString == IF parens # "" THEN " " \o parens ELSE parens
        wants == <<"m">>
                 \o (IF m.Variadic = Nil THEN <<>> ELSE <<"varargs", "a">>)
                 \o (IF Len(m.Out) = 0 THEN <<>>
                     ELSE <<"ret">> \o [i \in 1..Len(rets) |-> "ret" \o Itoa(i - 1)])
        ids == allocateAll(newIdentifierAllocator(argNames), wants)
        idRecv == ids[1]
        idVarArgs == ids[2]
        idVArg == ids[3]
        after == IF m.Variadic = Nil THEN 1 ELSE 3
        idRet == ids[after + 1]
        retNames == [i \in 1..Len(rets) |-> ids[after + 1 + i]]
        callArgs == IF m.Variadic = Nil
                    THEN IF Len(argNames) > 0 THEN ", " \o Join(argNames, ", ") ELSE ""
                    ELSE ", " \o idVarArgs \o "..."
        name == Str(m.Name)
        head == << "// " \o name \o " mocks base method.",
                   "func (" \o idRecv \o " *" \o mockType \o shortTp \o ") " \o name
                       \o "(" \o argString \o ")" \o retString \o " {",
                   "\t" \o idRecv \o ".ctrl.T.Helper()" >>
        variadic == IF m.Variadic = Nil THEN <<>>
                    ELSE << "\t" \o idVarArgs \o " := []any{" \o Join(Front(argNames), ", ") \o "}",
                            "\tfor _, " \o idVArg \o " := range " \o argNames[Len(argNames)] \o " {",
                            "\t\t" \o idVarArgs \o " = append(" \o idVarArgs \o ", " \o idVArg \o ")",
                            "\t}" >>
        call == IF Len(m.Out) = 0
                THEN << "\t" \o idRecv \o ".ctrl.Call(" \o idRecv \o ", \"" \o name \o "\""
                            \o callArgs \o ")" >>
                ELSE << "\t" \o idRet \o " := " \o idRecv \o ".ctrl.Call(" \o idRecv
                            \o ", \"" \o name \o "\"" \o callArgs \o ")" >>
                     \o [i \in 1..Len(rets) |->
                            "\t" \o retNames[i] \o ", _ := " \o idRet \o "[" \o Itoa(i - 1)
                                \o "].(" \o rets[i] \o ")"]
                     \o << "\treturn " \o Join(retNames, ", ") >>
    IN  [lines |-> head \o variadic \o call \o << "}" >>,
         scopes |-> << Scope("mock", name, argNames, ids) >>]

\* the bug of never building the temporary slice
recorderNeverAccumulates(m, argNames) == FALSE

\* whether the recorder builds a temporary slice for its call (lines 693-710)
recorderAccumulates(m, argNames) == m.Variadic # Nil /\ Len(argNames) # 1

\* GenerateMockRecorderMethod (lines 658-721)
GenerateMockRecorderMethod(intf, m, shortTp, isTyped, pm) ==
    LET mockType == mockName(Str(intf.Name))
        argNames == getArgNames(m, TRUE, pm)
        fixed == IF m.Variadic = Nil THEN Join(argNames, ", ")
                 ELSE Join(Front(argNames), ", ")
        widened == IF fixed # "" THEN fixed \o " any" ELSE fixed
        argString == IF m.Variadic # Nil
                     THEN (IF widened # "" THEN widened \o ", " ELSE widened)
                              \o argNames[Len(argNames)] \o " ...any"
                     ELSE widened
        accumulate == recorderAccumulates(m, argNames)
        ids == allocateAll(newIdentifierAllocator(argNames),
                           <<"mr">> \o (IF accumulate THEN <<"varargs">> ELSE <<>>))
        idRecv == ids[1]
        idVarArgs == ids[2]
        name == Str(m.Name)
        callArgs == IF m.Variadic = Nil
                    THEN IF Len(argNames) > 0 THEN ", " \o Join(argNames, ", ") ELSE ""
                    ELSE IF ~accumulate THEN ", " \o argNames[1] \o "..."
                    ELSE ", " \o idVarArgs \o "..."
        record == idRecv \o ".mock.ctrl.RecordCallWithMethodType(" \o idRecv \o ".mock, \""
                      \o name \o "\", reflect.TypeOf((*" \o mockType \o shortTp \o ")(nil)."
                      \o name \o ")" \o callArgs \o ")"
    IN  [lines |->
            << "// " \o name \o " indicates an expected call of " \o name \o ".",
               IF isTyped
               THEN "func (" \o idRecv \o " *" \o mockType \o "MockRecorder" \o shortTp \o ") "
                        \o name \o "(" \o argString \o ") *" \o mockType \o name \o "Call"
                        \o shortTp \o " {"
               ELSE "func (" \o idRecv \o " *" \o mockType \o "MockRecorder" \o shortTp \o ") "
                        \o name \o "(" \o argString \o ") *gomock.Call {",
               "\t" \o idRecv \o ".mock.ctrl.T.Helper()" >>
            \o (IF accumulate
                THEN << "\t" \o idVarArgs \o " := append([]any{" \o Join(Front(argNames), ", ")
                            \o "}, " \o argNames[Len(argNames)] \o "...)" >>
                ELSE <<>>)
            \o (IF isTyped
                THEN << "\tcall := " \o record,
                        "\treturn &" \o mockType \o name \o "Call" \o shortTp \o "{Call: call}" >>
                ELSE << "\treturn " \o record >>)
            \o << "}" >>,
         scopes |-> << Scope("recorder", name, argNames, ids) >>]

\* GenerateMockReturnCallMethod (lines 723-784)
GenerateMockReturnCallMethod(intf, m, pkgOverride, longTp, shortTp, pm) ==
    LET mockType == mockName(Str(intf.Name))
        argNames == getArgNames(m, TRUE, pm)
        retNames == getArgNames(m, FALSE, pm)
        argTypes == getArgTypes(m, pkgOverride, TRUE, pm)
        retTypes == getArgTypes(m, pkgOverride, FALSE, pm)
        argString == Join(argTypes, ", ")
        rets == [i \in 1..Len(m.Out) |-> TypeString(m.Out[i].Type, pm, pkgOverride)]
        retString == IF Len(rets) = 1 THEN " " \o rets[1]
                     ELSE IF Len(rets) > 1 THEN " (" \o Join(rets, ", ") \o ")"
                     ELSE ""
        ids == allocateAll(newIdentifierAllocator(argNames), <<"c">>)
        idRecv == ids[1]
        name == Str(m.Name)
        recvStructName == mockType \o name
        builder(fn) ==
            << "// " \o fn \o " rewrite *gomock.Call." \o fn,
               "func (" \o idRecv \o " *" \o recvStructName \o "Call" \o shortTp \o ") " \o fn
                   \o "(f func(" \o argString \o ")" \o retString \o ") *" \o recvStructName
                   \o "Call" \o shortTp \o " {",
               "\t" \o idRecv \o ".Call = " \o idRecv \o ".Call." \o fn \o "(f)",
               "\treturn " \o idRecv,
               "}" >>
    IN  [lines |->
            << "// " \o mockType \o name \o "Call wrap *gomock.Call",
               "type " \o mockType \o name \o "Call" \o longTp \o " struct{",
               "\t*gomock.Call",
               "}",
               "// Return rewrite *gomock.Call.Return",
               "func (" \o idRecv \o " *" \o recvStructName \o "Call" \o shortTp \o ") Return("
                   \o makeArgString(retNames, retTypes) \o ") *" \o recvStructName \o "Call"
                   \o shortTp \o " {",
               "\t" \o idRecv \o ".Call =  " \o idRecv \o ".Call.Return("
                   \o Join(retNames, ", ") \o ")",
               "\treturn " \o idRecv,
               "}" >>
            \o builder("Do") \o builder("DoAndReturn"),
         scopes |-> << Scope("Return", name, retNames, ids),
                       Scope("Do", name, <<"f">>, ids),
                       Scope("DoAndReturn", name, <<"f">>, ids) >>]

(***************************************************************************)
(* An interface block (lines 512-576).  The interfaces of the model have   *)
(* no type parameters, so formattedTypeParams gives "" twice.              *)
(***************************************************************************)
\* the orders a Go map of these keys may be ranged over in
Orders(S) ==
    {o \in [1..Cardinality(S) -> S] : \A i, j \in 1..Cardinality(S) : o[i] = o[j] => i = j}

\* the bug of leaving the methods in the order of the model
unsortedMethods(methods) == {methods}

\* sort.Sort(byMethodName(methods)): the orders it may leave the slice in
sortByMethodName(methods) ==
    {[i \in 1..Len(methods) |-> methods[o[i]]] : o \in
        {o \in Orders(DOMAIN methods) :
            \A i, j \in 1..Len(methods) :
                i < j => ~StrLess(methods[o[j]].Name, methods[o[i]].Name)}}

\* the loop of GenerateMockMethods (lines 566-575) over the sorted methods
RECURSIVE methodBlocks(_, _, _, _, _)
methodBlocks(intf, methods, pkgOverride, isTyped, pm) ==
    IF Len(methods) = 0 THEN [lines |-> <<>>, scopes |-> <<>>]
    ELSE LET m == methods[1]
             mock == GenerateMockMethod(mockName(Str(intf.Name)), m, pkgOverride, "", pm)
             recorder == GenerateMockRecorderMethod(intf, m, "", isTyped, pm)
             wrapper == IF isTyped
                        THEN GenerateMockReturnCallMethod(intf, m, pkgOverride, "", "", pm)
                        ELSE [lines |-> <<>>, scopes |-> <<>>]
             rest == methodBlocks(intf, Tail(methods), pkgOverride, isTyped, pm)
         IN  [lines |-> <<"">> \o mock.lines \o <<"">> \o recorder.lines
                            \o (IF isTyped THEN <<"">> \o wrapper.lines ELSE <<>>)
                            \o rest.lines,
              scopes |-> mock.scopes \o recorder.scopes \o wrapper.scopes \o rest.scopes]

\* the lines GenerateMockInterface writes before the methods (lines 513-551)
interfaceHead(intf) ==
    LET name == Str(intf.Name)
        mockType == mockName(name)
    IN  << "",
           "// " \o mockType \o " is a mock of " \o name \o " interface.",
           "type " \o mockType \o " struct {",
           "\tctrl     *gomock.Controller",
           "\trecorder *" \o mockType \o "MockRecorder",
           "\tisgomock struct{}",
           "}",
           "",
           "// " \o mockType \o "MockRecorder is the mock recorder for " \o mockType \o ".",
           "type " \o mockType \o "MockRecorder struct {",
           "\tmock *" \o mockType,
           "}",
           "",
           "// New" \o mockType \o " creates a new mock instance.",
           "func New" \o mockType \o "(ctrl *gomock.Controller) *" \o mockType \o " {",
           "\tmock := &" \o mockType \o "{ctrl: ctrl}",
           "\tmock.recorder = &" \o mockType \o "MockRecorder{mock}",
           "\treturn mock",
           "}",
           "",
           "// EXPECT returns an object that allows the caller to indicate expected use.",
           "func (m *" \o mockType \o ") EXPECT() *" \o mockType \o "MockRecorder {",
           "\treturn m.recorder",
           "}" >>

(***************************************************************************)
(* Generate (lines 331-476), in the steps of its code.  The run is in      *)
(* source mode on f.go, with no copyright header and no build constraint.  *)
(***************************************************************************)
\* the lines before the imports are worked out (lines 351-370)
provenance ==
    << "// Code generated by MockGen. DO NOT EDIT.",
       "// Source: f.go",
       "//",
       "// Generated by this command:",
       "//",
       "//\tmockgen -source=f.go",
       "//" >>

\* a line of the import block: g.p("%v %q", pkgName, pkgPath)
importLine(name, pth) == "\t" \o name \o " " \o Quote(pth)

\* lines 331-406
Generate_Begin ==
    /\ pc = "Generate"
    /\ outputPackagePath' =
           resetOutputPackagePath(outputPkgName, pkg.Name, selfPackage, outputPackagePathIn)
    /\ buf' = buf \o provenance
    /\ sortedPaths' = SortStrings(requiredImports(pkg))
    /\ packagesName' = createPackageMap(SortStrings(requiredImports(pkg)), goList)
    /\ definedImports' = parseImports(importsFlag, <<>>)
    /\ packageMap' = <<>>
    /\ localNames' = {}
    /\ x' = 0
    /\ pc' = "aliases"
    /\ UNCHANGED <<pkg, intfIdx, imported, blocks, scopes, inputVars, allocVars, mainVars>>

\* one pass of the loop over sortedPaths (lines 408-438)
Generate_Alias ==
    /\ pc = "aliases"
    /\ x < Len(sortedPaths)
    /\ LET pth == sortedPaths[x + 1]
           pkgName == localName(pth, localNames, packagesName, definedImports)
       IN  IF pth = pkg.PkgPath /\ outputPackagePath = pkg.PkgPath
           THEN UNCHANGED <<packageMap, localNames>>
           ELSE /\ packageMap' = [q \in DOMAIN packageMap \cup {pth} |->
                                     IF q = pth THEN pkgName ELSE packageMap[q]]
                /\ localNames' = localNames \cup {pkgName}
    /\ x' = x + 1
    /\ UNCHANGED <<pkg, pc, outputPackagePath, sortedPaths, packagesName, definedImports,
                   intfIdx, buf, imported, blocks, scopes, inputVars, allocVars, mainVars>>

\* the package clause and the import block (lines 444-467); ranging over
\* g.packageMap visits its entries in an order the Go runtime chooses
Generate_Preamble ==
    /\ pc = "aliases"
    /\ x = Len(sortedPaths)
    /\ \E order \in Orders(DOMAIN packageMap \ {outputPackagePath}) :
        /\ buf' = buf
               \o << "",
                     "// Package " \o outputPkgName \o " is a generated GoMock package.",
                     "package " \o outputPkgName,
                     "",
                     "import (" >>
               \o [i \in DOMAIN order |-> importLine(packageMap[order[i]], order[i])]
               \o [i \in DOMAIN pkg.DotImports |-> importLine(".", pkg.DotImports[i])]
               \o << ")" >>
        /\ imported' = [i \in DOMAIN order |-> [name |-> packageMap[order[i]], path |-> order[i]]]
               \o [i \in DOMAIN pkg.DotImports |-> [name |-> ".", path |-> pkg.DotImports[i]]]
    /\ intfIdx' = 0
    /\ pc' = "interfaces"
    /\ UNCHANGED <<pkg, outputPackagePath, sortedPaths, packagesName, definedImports,
                   localNames, x, packageMap, blocks, scopes, inputVars, allocVars, mainVars>>

\* one pass of the loop over pkg.Interfaces (lines 469-473): GenerateMockInterface,
\* whose GenerateMockMethods sorts the interface's own Methods slice
Generate_Interface ==
    /\ pc = "interfaces"
    /\ intfIdx < Len(pkg.Interfaces)
    /\ LET intf == pkg.Interfaces[intfIdx + 1]
       IN  \E sorted \in sortByMethodName(intf.Methods) :
             LET body == methodBlocks(intf, sorted, outputPackagePath, typed, packageMap)
             IN  /\ pkg' = [pkg EXCEPT !.Interfaces[intfIdx + 1].Methods = sorted]
                 /\ buf' = buf \o interfaceHead(intf) \o body.lines
                 /\ blocks' = blocks
                        \o << [intf |-> intf.Name, method |-> <<>>] >>
                        \o [i \in DOMAIN sorted |-> [intf |-> intf.Name, method |-> sorted[i].Name]]
                 /\ scopes' = scopes \o body.scopes
    /\ intfIdx' = intfIdx + 1
    /\ UNCHANGED <<pc, outputPackagePath, sortedPaths, packagesName, definedImports,
                   localNames, x, packageMap, imported, inputVars, allocVars, mainVars>>

\* return nil (line 475)
Generate_Return ==
    /\ pc = "interfaces"
    /\ intfIdx = Len(pkg.Interfaces)
    /\ pc' = "generated"
    /\ UNCHANGED <<pkg, outputPackagePath, sortedPaths, packagesName, definedImports,
                   localNames, x, intfIdx, packageMap, buf, imported, blocks, scopes,
                   inputVars, allocVars, mainVars>>

(***************************************************************************)
(* main after Generate (lines 189-211), in the steps of its code, and the  *)
(* next run of the program on the same input.                              *)
(***************************************************************************)
\* ast.SortImports within the import block: by import path, stably
RECURSIVE insertImport(_, _)
insertImport(e, sorted) ==
    IF Len(sorted) = 0 THEN <<e>>
    ELSE IF StrLess(e.path, sorted[1].path) THEN <<e>> \o sorted
    ELSE <<sorted[1]>> \o insertImport(e, Tail(sorted))

RECURSIVE sortImports(_)
sortImports(imps) ==
    IF Len(imps) = 0 THEN <<>>
    ELSE insertImport(imps[Len(imps)], sortImports(Front(imps)))

\* the bug of writing the import block in the order Generate left it in
formatSourceUnsorted(b, imps) == b

\* imports.Process on the text of g.buf, as far as the import block goes:
\* its lines come out sorted
formatSource(b, imps) ==
    LET start == CHOOSE k \in DOMAIN b : b[k] = "import ("
        sorted == sortImports(imps)
    IN  SubSeq(b, 1, start)
            \o [i \in DOMAIN sorted |-> importLine(sorted[i].name, sorted[i].path)]
            \o SubSeq(b, start + Len(imps) + 1, Len(b))

\* os.ReadFile of the destination; a file that does not exist reads as nil
existingContent(f) == IF f.exists THEN f.content ELSE <<>>

\* len(existing) == len(output) && bytes.Equal(existing, output) (line 199)
sameContent(existing, out) == Len(existing) = Len(out) /\ existing = out

\* g.Output() (lines 189, 864-870) returns the formatted text
Main_Output ==
    /\ pc = "generated"
    /\ ~formatFails
    /\ output' = formatSource(buf, imported)
    /\ pc' = IF destination THEN "MkdirAll" ELSE "Write"
    /\ UNCHANGED <<inputVars, allocVars, pkg, outputPackagePath, sortedPaths, packagesName,
                   definedImports, localNames, x, intfIdx, packageMap, buf, imported,
                   blocks, scopes, destination, formatFails, run, fs, stdout, fileOps, runs>>

\* the bug of handing on the text of g.buf when imports.Process rejects it
Main_OutputDraft ==
    /\ pc = "generated"
    /\ formatFails
    /\ output' = buf
    /\ pc' = IF destination THEN "MkdirAll" ELSE "Write"
    /\ UNCHANGED <<inputVars, allocVars, pkg, outputPackagePath, sortedPaths, packagesName,
                   definedImports, localNames, x, intfIdx, packageMap, buf, imported,
                   blocks, scopes, destination, formatFails, run, fs, stdout, fileOps, runs>>

\* g.Output() ends the program: imports.Process rejected the text (line 867)
Main_OutputFatal ==
    /\ pc = "generated"
    /\ formatFails
    /\ pc' = "fatal"
    /\ UNCHANGED <<inputVars, allocVars, pkg, outputPackagePath, sortedPaths, packagesName,
                   definedImports, localNames, x, intfIdx, packageMap, buf, imported,
                   blocks, scopes, mainVars>>

\* os.MkdirAll (line 192)
Main_MkdirAll ==
    /\ pc = "MkdirAll"
    /\ fs' = [fs EXCEPT !.dir = TRUE]
    /\ pc' = "ReadFile"
    /\ UNCHANGED <<inputVars, allocVars, pkg, outputPackagePath, sortedPaths, packagesName,
                   definedImports, localNames, x, intfIdx, packageMap, buf, imported,
                   blocks, scopes, destination, formatFails, run, output, stdout, fileOps, runs>>

\* os.MkdirAll fails (line 193)
Main_MkdirAllFatal ==
    /\ pc = "MkdirAll"
    /\ ~fs.dir
    /\ pc' = "fatal"
    /\ UNCHANGED <<inputVars, allocVars, pkg, outputPackagePath, sortedPaths, packagesName,
                   definedImports, localNames, x, intfIdx, packageMap, buf, imported,
                   blocks, scopes, mainVars>>

\* os.ReadFile and the comparison with the output (lines 195-201)
Main_ReadFile ==
    /\ pc = "ReadFile"
    /\ pc' = IF sameContent(existingContent(fs), output) THEN "done" ELSE "Create"
    /\ UNCHANGED <<inputVars, allocVars, pkg, outputPackagePath, sortedPaths, packagesName,
                   definedImports, localNames, x, intfIdx, packageMap, buf, imported,
                   blocks, scopes, mainVars>>

\* os.ReadFile fails, and not because the file does not exist (line 197)
Main_ReadFileFatal ==
    /\ pc = "ReadFile"
    /\ fs.exists
    /\ pc' = "fatal"
    /\ UNCHANGED <<inputVars, allocVars, pkg, outputPackagePath, sortedPaths, packagesName,
                   definedImports, localNames, x, intfIdx, packageMap, buf, imported,
                   blocks, scopes, mainVars>>

\* os.Create (line 202) creates the file or truncates it
Main_Create ==
    /\ pc = "Create"
    /\ fs' = [fs EXCEPT !.exists = TRUE, !.content = <<>>]
    /\ fileOps' = Append(fileOps, [run |-> run, op |-> "Create"])
    /\ pc' = "Write"
    /\ UNCHANGED <<inputVars, allocVars, pkg, outputPackagePath, sortedPaths, packagesName,
                   definedImports, localNames, x, intfIdx, packageMap, buf, imported,
                   blocks, scopes, destination, formatFails, run, output, stdout, runs>>

\* os.Create fails (line 204)
Main_CreateFatal ==
    /\ pc = "Create"
    /\ pc' = "fatal"
    /\ UNCHANGED <<inputVars, allocVars, pkg, outputPackagePath, sortedPaths, packagesName,
                   definedImports, localNames, x, intfIdx, packageMap, buf, imported,
                   blocks, scopes, mainVars>>

\* dst.Write(output) (line 209), to the file or to os.Stdout
Main_Write ==
    /\ pc = "Write"
    /\ IF destination
       THEN /\ fs' = [fs EXCEPT !.content = output]
            /\ fileOps' = Append(fileOps, [run |-> run, op |-> "Write"])
            /\ UNCHANGED stdout
       ELSE /\ stdout' = stdout \o output
            /\ UNCHANGED <<fs, fileOps>>
    /\ pc' = "done"
    /\ UNCHANGED <<inputVars, allocVars, pkg, outputPackagePath, sortedPaths, packagesName,
                   definedImports, localNames, x, intfIdx, packageMap, buf, imported,
                   blocks, scopes, destination, formatFails, run, output, runs>>

\* dst.Write fails after writing less than the output (line 210)
Main_WriteFatal ==
    /\ pc = "Write"
    /\ \E n \in 0..MaxPartial :
        /\ n < Len(output)
        /\ IF destination
           THEN /\ fs' = [fs EXCEPT !.content = SubSeq(output, 1, n)]
                /\ fileOps' = Append(fileOps, [run |-> run, op |-> "Write"])
                /\ UNCHANGED stdout
           ELSE /\ stdout' = stdout \o SubSeq(output, 1, n)
                /\ UNCHANGED <<fs, fileOps>>
    /\ pc' = "fatal"
    /\ UNCHANGED <<inputVars, allocVars, pkg, outputPackagePath, sortedPaths, packagesName,
                   definedImports, localNames, x, intfIdx, packageMap, buf, imported,
                   blocks, scopes, destination, formatFails, run, output, runs>>

\* the program is run again: same flags, same input, the model loaded afresh
Main_Rerun ==
    /\ pc \in {"done", "fatal"}
    /\ run < MaxRuns
    /\ run' = run + 1
    /\ runs' = Append(runs, [outcome |-> pc, fs |-> fs])
    /\ pkg' = pkgIn
    /\ pc' = "Generate"
    /\ outputPackagePath' = <<>>
    /\ sortedPaths' = <<>>
    /\ packagesName' = <<>>
    /\ definedImports' = <<>>
    /\ localNames' = {}
    /\ x' = 0
    /\ intfIdx' = 0
    /\ packageMap' = <<>>
    /\ buf' = <<>>
    /\ imported' = <<>>
    /\ blocks' = <<>>
    /\ scopes' = <<>>
    /\ output' = <<>>
    /\ stdout' = <<>>
    /\ UNCHANGED <<inputVars, allocVars, destination, formatFails, fs, fileOps>>

NextMain ==
    \/ Generate_Begin
    \/ Generate_Alias
    \/ Generate_Preamble
    \/ Generate_Interface
    \/ Generate_Return
    \/ Main_Output
    \/ Main_OutputFatal
    \/ Main_MkdirAll
    \/ Main_MkdirAllFatal
    \/ Main_ReadFile
    \/ Main_ReadFileFatal
    \/ Main_Create
    \/ Main_CreateFatal
    \/ Main_Write
    \/ Main_WriteFatal
    \/ Main_Rerun

(***************************************************************************)
(* The inputs the specifications draw from.                                *)
(***************************************************************************)
\* the source package, a/f, and other import paths
pSelf == <<"a", "/", "f">>
pOut == <<"o", "/", "k">>
pHT == <<"h", "/", "t">>
pTT == <<"t", "/", "t">>
pGo == <<"x", "/", "g", "o">>
pAny == <<"x", "/", "a", "n", "y">>
pT0 == <<"y", "/", "t", "0">>
pGomock == <<"a", "/", "g", "o", "m", "o", "c", "k">>
pDash == <<"b", "/", "-">>
pDot == <<"d", "/", "o", "t">>

int == Predeclared("int")
string == Predeclared("string")

Param(name, type) == [Name |-> name, Type |-> type]
Method(name, in, out, variadic) ==
    [Name |-> name, In |-> in, Out |-> out, Variadic |-> variadic]
Interface(name, methods) == [Name |-> name, Methods |-> methods]
Package(imports, dots, interfaces) ==
    [Name |-> <<"f">>, PkgPath |-> pSelf, Imports |-> imports, DotImports |-> dots,
     Interfaces |-> interfaces]

\* the states before Generate is called and when the allocator is not in use
GenerateCalled ==
    /\ pc = "Generate"
    /\ pkgIn = pkg
    /\ outputPackagePath = <<>>
    /\ sortedPaths = <<>>
    /\ packagesName = <<>>
    /\ definedImports = <<>>
    /\ localNames = {}
    /\ x = 0
    /\ intfIdx = 0
    /\ packageMap = <<>>
    /\ buf = <<>>
    /\ imported = <<>>
    /\ blocks = <<>>
    /\ scopes = <<>>

\* the destination is not looked at before main calls g.Output()
MainIdle ==
    /\ destination = FALSE
    /\ formatFails = FALSE
    /\ run = 1
    /\ output = <<>>
    /\ fs = [dir |-> FALSE, exists |-> FALSE, content |-> <<>>]
    /\ stdout = <<>>
    /\ fileOps = <<>>
    /\ runs = <<>>

AllocatorIdle ==
    /\ ia = {}
    /\ iaBefore = {}
    /\ iaWant = ""
    /\ iaId = ""

\* main's outputPackageName (lines 134-139)
outputPackageName(packageOut, pkgName) ==
    IF packageOut = "" THEN "mock_" \o sanitize(pkgName) ELSE packageOut

\* main's outputPackagePath (lines 147-160): -self_package when given, else
\* what parsePackageImport makes of the destination, else nothing
MainOutputPackagePaths(selfPkg) ==
    IF Len(selfPkg) # 0 THEN {selfPkg} ELSE {<<>>, pSelf, pOut}

(***************************************************************************)
(* The allocator specification: newIdentifierAllocator on a drawn slice,   *)
(* then allocateIdentifier calls.                                          *)
(***************************************************************************)
AllocSeedNames == {"m", "m_2", "m_3", "a", "ret"}
AllocWants == {"m", "a", "ret", "m_2"}

InitAlloc ==
    /\ \E taken \in SeqsUpTo(AllocSeedNames, MaxSeed) : ia = newIdentifierAllocator(taken)
    /\ iaBefore = {}
    /\ iaWant = ""
    /\ iaId = ""
    /\ selfPackage = <<>>
    /\ typed = FALSE
    /\ importsFlag = <<>>
    /\ goList = <<>>
    /\ pkg = Package({}, <<>>, <<>>)
    /\ outputPkgName = "f"
    /\ outputPackagePathIn = <<>>
    /\ GenerateCalled
    /\ MainIdle

AllocateIdentifier ==
    /\ Cardinality(ia) < MaxTaken
    /\ \E want \in AllocWants :
        /\ iaWant' = want
        /\ iaId' = allocateIdentifier(ia, want)
        /\ ia' = ia \cup {allocateIdentifier(ia, want)}
        /\ iaBefore' = ia
    /\ UNCHANGED <<inputVars, genVars, mainVars>>

NextAlloc == AllocateIdentifier

SpecAlloc == InitAlloc /\ [][NextAlloc]_vars

(***************************************************************************)
(* The alias specification: Generate on drawn import paths, `go list`      *)
(* answers and -imports pairs.                                             *)
(***************************************************************************)
AliasPathPool == {pSelf, pHT, pTT, pGo, pAny, pT0, pGomock, pDash}

GoListAnswers ==
    { <<>>,
      (pHT :> "t0"),
      (pTT :> "go"),
      (pHT :> "q") @@ (pTT :> "q"),
      (pGo :> "any") @@ (pSelf :> "f"),
      (gomockImportPath :> "gomock") @@ (reflectPath :> "reflect") @@ (pDash :> "t") }

ImportsFlags ==
    { <<>>,
      << <<"t0", pHT>> >>,
      << <<"go", pTT>> >>,
      << <<".", pHT>>, <<"any", pSelf>> >>,
      << <<"t", pGo>>, <<"t", pAny>> >> }

\* an interface with a method, and one without
oneMethod == Method(<<"M">>, <<Param("a", int)>>, <<>>, Nil)

InitAlias ==
    /\ AllocatorIdle
    /\ typed = FALSE
    /\ selfPackage \in {<<>>, pSelf}
    /\ outputPackagePathIn \in {selfPackage, pSelf}
    /\ outputPkgName = "f"
    /\ importsFlag \in ImportsFlags
    /\ goList \in GoListAnswers
    /\ \E imports \in {S \in SUBSET AliasPathPool : Cardinality(S) <= MaxImports} :
       \E methods \in {<<>>, <<oneMethod>>} :
           pkg = Package(imports, <<>>, <<Interface(<<"A">>, methods)>>)
    /\ GenerateCalled
    /\ MainIdle

\* Generate as far as the end of its loop over sortedPaths (lines 331-438)
NextAlias ==
    \/ Generate_Begin
    \/ Generate_Alias

SpecAlias == InitAlias /\ [][NextAlias]_vars

NextGenerate ==
    \/ Generate_Begin
    \/ Generate_Alias
    \/ Generate_Preamble
    \/ Generate_Interface
    \/ Generate_Return

(***************************************************************************)
(* The generation specification: Generate on drawn interface and method    *)
(* orders, output package names and output package paths.                  *)
(***************************************************************************)
\* methods A and B; A takes a value of the source package's type T
mA == Method(<<"A">>, <<Param("a", Named(pSelf, "T"))>>, <<Param("", int)>>, Nil)
mB == Method(<<"B">>, <<Param("b", int)>>, <<>>, Nil)

GenMethodLists == {<<>>, <<mA, mB>>, <<mB, mA>>}

GenInterfaceLists ==
    {<<Interface(n, ms)>> : n \in {<<"A">>, <<"B">>}, ms \in GenMethodLists}
        \cup {<<Interface(<<"A">>, ms1), Interface(<<"B">>, ms2)>> :
                  ms1 \in GenMethodLists, ms2 \in GenMethodLists}
        \cup {<<Interface(<<"B">>, ms1), Interface(<<"A">>, ms2)>> :
                  ms1 \in GenMethodLists, ms2 \in GenMethodLists}

InitGen ==
    /\ AllocatorIdle
    /\ MainIdle
    /\ typed \in BOOLEAN
    /\ selfPackage \in {<<>>, pSelf, pOut}
    /\ outputPackagePathIn \in MainOutputPackagePaths(selfPackage)
    /\ outputPkgName \in {outputPackageName(packageOut, <<"f">>) : packageOut \in {"", "f"}}
    /\ importsFlag = <<>>
    /\ goList = <<>>
    /\ \E imports \in {{pSelf}, {pSelf, pHT}} :
       \E dots \in {<<>>, <<pDot>>} :
       \E interfaces \in GenInterfaceLists :
           pkg = Package(imports, dots, interfaces)
    /\ GenerateCalled

SpecGen == InitGen /\ [][NextGenerate]_vars

(***************************************************************************)
(* The method specification: Generate on a package of one interface, A,    *)
(* with one method, M, whose parameters are drawn.  The generated package  *)
(* is mock_f; the aliases are gomock and reflect.                          *)
(***************************************************************************)
InNames == {"", "_", "a", "arg1", "gomock"}
OutNames == {"", "c", "arg0"}
VariadicNames == {"", "_", "a", "gomock"}

\* the methods of the examples: M(a string, b string, c ...int), and
\* M(x int, y int, z string)
exVariadic ==
    Method(<<"M">>, <<Param("a", string), Param("b", string)>>, <<>>, Param("c", int))
exCompress ==
    Method(<<"M">>, <<Param("x", int), Param("y", int), Param("z", string)>>, <<>>, Nil)

DrawnMethods ==
    {Method(<<"M">>, [i \in DOMAIN in |-> Param(in[i], int)],
                     [i \in DOMAIN out |-> Param(out[i], int)], variadic) :
        in \in SeqsUpTo(InNames, MaxIn),
        out \in SeqsUpTo(OutNames, MaxOut),
        variadic \in {Nil} \cup {Param(n, int) : n \in VariadicNames}}

InitMethod ==
    /\ AllocatorIdle
    /\ MainIdle
    /\ typed \in BOOLEAN
    /\ selfPackage = <<>>
    /\ outputPackagePathIn = <<>>
    /\ outputPkgName = outputPackageName("", <<"f">>)
    /\ importsFlag = <<>>
    /\ goList = <<>>
    /\ \E m \in DrawnMethods \cup {exVariadic, exCompress} :
           pkg = Package({}, <<>>, <<Interface(<<"A">>, <<m>>)>>)
    /\ GenerateCalled

SpecMethod == InitMethod /\ [][NextGenerate]_vars

\* the method of the method specification
theMethod == pkgIn.Interfaces[1].Methods[1]

(***************************************************************************)
(* The argument-string specification: Generate on one interface with one   *)
(* method M whose parameters are of predeclared types and whose results   *)
(* are of a predeclared and an imported type, the same and different ones  *)
(* side by side.                                                           *)
(***************************************************************************)
ArgTypes == {int, string}
RetTypes == {int, Named(pHT, "T")}
ArgNames == <<"x", "y", "z", "w">>
RetNames == <<"r", "s", "u">>

ArgMethods ==
    {Method(<<"M">>, [i \in DOMAIN in |-> Param(ArgNames[i], in[i])],
                     [i \in DOMAIN out |-> Param(RetNames[i], out[i])], variadic) :
        in \in SeqsUpTo(ArgTypes, MaxArgs),
        out \in SeqsUpTo(RetTypes, MaxRets),
        variadic \in {Nil, Param("v", int), Param("v", string)}}

InitArgs ==
    /\ AllocatorIdle
    /\ MainIdle
    /\ typed \in BOOLEAN
    /\ selfPackage = <<>>
    /\ outputPackagePathIn = <<>>
    /\ outputPkgName = outputPackageName("", <<"f">>)
    /\ importsFlag = <<>>
    /\ goList = <<>>
    /\ \E m \in ArgMethods :
           pkg = Package({pHT}, <<>>, <<Interface(<<"A">>, <<m>>)>>)
    /\ GenerateCalled

SpecArgs == InitArgs /\ [][NextGenerate]_vars

(***************************************************************************)
(* The sanitize specification: Generate, as far as the end of the alias    *)
(* loop, on a package that imports one path p/<segment> of which `go list` *)
(* knows nothing, so that its alias is sanitize(path.Base(path)).  The     *)
(* characters of the segments make no keyword and no name taken by another *)
(* import.                                                                 *)
(***************************************************************************)
SegmentChars == {"-", ".", "2", "_", "a", "B"}

SegmentPaths ==
    {<<"p", "/">> \o seg : seg \in SeqsUpTo(SegmentChars, MaxSegment) \ {<<>>}}

InitSanitize ==
    /\ AllocatorIdle
    /\ MainIdle
    /\ typed = FALSE
    /\ selfPackage = <<>>
    /\ outputPackagePathIn = <<>>
    /\ outputPkgName = outputPackageName("", <<"f">>)
    /\ importsFlag = <<>>
    /\ goList = <<>>
    /\ \E pth \in SegmentPaths :
           pkg = Package({pth}, <<>>, <<Interface(<<"A">>, <<>>)>>)
    /\ GenerateCalled

SpecSanitize == InitSanitize /\ [][NextAlias]_vars

(***************************************************************************)
(* The main specification: runs of the whole program, one after another,   *)
(* on the same input, with and without -destination.                       *)
(***************************************************************************)
DestinationStates ==
    { [dir |-> FALSE, exists |-> FALSE, content |-> <<>>],
      [dir |-> TRUE, exists |-> FALSE, content |-> <<>>],
      [dir |-> TRUE, exists |-> TRUE, content |-> <<>>],
      [dir |-> TRUE, exists |-> TRUE, content |-> << "// old" >>] }

InitMain ==
    /\ AllocatorIdle
    /\ typed = FALSE
    /\ selfPackage = <<>>
    /\ destination \in BOOLEAN
    /\ formatFails \in BOOLEAN
    /\ outputPackagePathIn \in (IF destination THEN {<<>>, pSelf} ELSE {<<>>})
    /\ outputPkgName \in {outputPackageName(packageOut, <<"f">>) : packageOut \in {"", "f"}}
    /\ importsFlag = <<>>
    /\ goList = <<>>
    /\ \E methods \in {<<>>, <<mB>>} :
           pkg = Package({pHT}, <<>>, <<Interface(<<"A">>, methods)>>)
    /\ GenerateCalled
    /\ run = 1
    /\ output = <<>>
    /\ fs \in DestinationStates
    /\ stdout = <<>>
    /\ fileOps = <<>>
    /\ runs = <<>>

SpecMain == InitMain /\ [][NextMain]_vars

(***************************************************************************)
(*                              The claims                                 *)
(***************************************************************************)
\* want with the suffix _k
Suffixed(want, k) == want \o "_" \o Itoa(k)

(***************************************************************************)
(* C3: allocateIdentifier(want) on a map with key set S returns want when  *)
(* want is not in S, and otherwise want_k for the smallest k >= 2 with     *)
(* want_k not in S; the result was not in S, is in the map afterwards, and *)
(* the map gained no other key and lost none.                              *)
(***************************************************************************)
C3_AllocateSmallestFree ==
    iaWant # "" =>
        /\ iaWant \notin iaBefore => iaId = iaWant
        /\ iaWant \in iaBefore =>
            \E k \in 2..(Cardinality(iaBefore) + 2) :
                /\ iaId = Suffixed(iaWant, k)
                /\ \A j \in 2..(k - 1) : Suffixed(iaWant, j) \in iaBefore
        /\ iaId \notin iaBefore
        /\ ia = iaBefore \cup {iaId}

\* want, want_2 and want_3 were all taken: the call went on to want_4
C3_Witness ==
    /\ iaWant = "m"
    /\ {"m", "m_2", "m_3"} \subseteq iaBefore
    /\ iaId = "m_4"

(***************************************************************************)
(* C1: after the alias loop of Generate, packageMap maps no two import     *)
(* paths to the same alias, and no alias in it is a Go keyword or "any".   *)
(* (It holds after every pass of the loop, too.)                           *)
(***************************************************************************)
C1_AliasesUniqueAndLegal ==
    /\ \A p1, p2 \in DOMAIN packageMap : packageMap[p1] = packageMap[p2] => p1 = p2
    /\ \A pth \in DOMAIN packageMap : ~IsKeyword(packageMap[pth]) /\ packageMap[pth] # "any"

\* the loop is over, and it had to rename: two paths with the base name t, and
\* a path whose base name is a keyword
C1_Witness ==
    /\ pc = "aliases"
    /\ x = Len(sortedPaths)
    /\ {pHT, pTT, pGo} \subseteq DOMAIN packageMap
    /\ packageMap[pHT] = "t"
    /\ packageMap[pTT] = "t0"
    /\ packageMap[pGo] = "go0"

\* the source package is neither in packageMap nor in the import block, and
\* it is the override of type rendering: its type T renders as T
SelfImportElided ==
    /\ pkg.PkgPath \notin DOMAIN packageMap
    /\ \A i \in DOMAIN imported : imported[i].path # pkg.PkgPath
    /\ outputPackagePath = pkg.PkgPath
    /\ \A i \in DOMAIN blocks :
           blocks[i].method = <<"A">> =>
               \E k \in DOMAIN buf :
                   buf[k] = "func (m *Mock" \o Str(blocks[i].intf) \o ") A(a T) int {"

NoDuplicates(seq) == \A i, j \in DOMAIN seq : seq[i] = seq[j] => i = j

(***************************************************************************)
(* C4: in each emitted function, the identifiers taken from the identifier *)
(* allocator are distinct from one another and from every parameter name   *)
(* of that function's signature, the output-parameter names that are the   *)
(* parameters of the wrapper's Return method included.                     *)
(***************************************************************************)
C4_AllocatedIdentifiersDistinct ==
    \A i \in DOMAIN scopes :
        /\ NoDuplicates(scopes[i].ids)
        /\ Range(scopes[i].ids) \cap Range(scopes[i].params) = {}

\* the declared names of a method's parameters, the empty and the
\* placeholder ones aside
DeclaredNames(m) ==
    LET all == [i \in DOMAIN m.In |-> m.In[i].Name]
                   \o (IF m.Variadic = Nil THEN <<>> ELSE <<m.Variadic.Name>>)
                   \o [i \in DOMAIN m.Out |-> m.Out[i].Name]
    IN  SelectSeq(all, LAMBDA n : n # "" /\ n # "_")

(***************************************************************************)
(* C5: when the declared names of a method's parameters, the empty and the *)
(* placeholder ones aside, are pairwise distinct, the input-parameter      *)
(* names of getArgNames (fixed, then variadic) are pairwise distinct, and  *)
(* so are the output-parameter names.                                      *)
(***************************************************************************)
C5_ArgNamesDistinct ==
    (pc # "Generate" /\ NoDuplicates(DeclaredNames(theMethod))) =>
        \A i \in DOMAIN scopes :
            scopes[i].fn \in {"mock", "recorder", "Return"} => NoDuplicates(scopes[i].params)

\* the names the claim gives the parameters
ClaimedNames(params) ==
    [i \in DOMAIN params |->
        IF params[i].Name \in {"", "_"} \cup {packageMap[pth] : pth \in DOMAIN packageMap}
        THEN "arg" \o Itoa(i - 1)
        ELSE params[i].Name]

(***************************************************************************)
(* C6: getArgNames renames a parameter to argN, N its zero-based position, *)
(* exactly when its name is empty, is "_" or is an alias of packageMap,    *)
(* for the fixed input parameters, the output parameters and the variadic  *)
(* parameter (whose position is the number of fixed input parameters).     *)
(***************************************************************************)
C6_RenamedExactlyWhenClaimed ==
    \A i \in DOMAIN scopes :
        /\ scopes[i].fn \in {"mock", "recorder"} =>
               scopes[i].params =
                   ClaimedNames(theMethod.In \o (IF theMethod.Variadic = Nil THEN <<>>
                                                 ELSE <<theMethod.Variadic>>))
        /\ scopes[i].fn = "Return" => scopes[i].params = ClaimedNames(theMethod.Out)

\* the lines of buf from k on are these
LinesAt(k, lines) ==
    /\ k + Len(lines) - 1 <= Len(buf)
    /\ \A i \in DOMAIN lines : buf[k + i - 1] = lines[i]

\* the body of the forwarding method of M(a string, b string, c ...int)
ForwardingAccumulates ==
    \E k \in DOMAIN buf :
        LinesAt(k, << "\tm.ctrl.T.Helper()",
                      "\tvarargs := []any{a, b}",
                      "\tfor _, a_2 := range c {",
                      "\t\tvarargs = append(varargs, a_2)",
                      "\t}",
                      "\tm.ctrl.Call(m, \"M\", varargs...)",
                      "}" >>)

\* the call of the recorder method of M, given the arguments it passes on
RecorderCall(callArgs) ==
    (IF typed THEN "\tcall := " ELSE "\treturn ")
        \o "mr.mock.ctrl.RecordCallWithMethodType(mr.mock, \"M\", "
        \o "reflect.TypeOf((*MockA)(nil).M), " \o callArgs \o ")"

RecorderScope(i) == scopes[i].fn = "recorder"

(***************************************************************************)
(* C7, as claimed: for M(a string, b string, c ...int) the forwarding      *)
(* method declares an accumulator seeded with a and b and appends each     *)
(* element of c in order, and the recorder method passes c on directly     *)
(* (c...) without building a temporary accumulator.                        *)
(***************************************************************************)
C7_Original ==
    (pc = "generated" /\ theMethod = exVariadic) =>
        /\ ForwardingAccumulates
        /\ \E k \in DOMAIN buf :
               LinesAt(k, << "\tmr.mock.ctrl.T.Helper()", RecorderCall("c...") >>)
        /\ \A i \in DOMAIN scopes : RecorderScope(i) => scopes[i].ids = <<"mr">>

(***************************************************************************)
(* C7, amended: the forwarding method is as claimed; the recorder method   *)
(* of the same signature builds a temporary slice from a, b and c and      *)
(* passes that on (varargs...).  A recorder method passes its variadic     *)
(* argument on directly (name...) only when the variadic parameter is the  *)
(* method's only parameter.                                                *)
(***************************************************************************)
C7_VariadicForwarding ==
    pc = "generated" =>
        /\ theMethod = exVariadic =>
            /\ ForwardingAccumulates
            /\ \E k \in DOMAIN buf :
                   LinesAt(k, << "\tmr.mock.ctrl.T.Helper()",
                                 "\tvarargs := append([]any{a, b}, c...)",
                                 RecorderCall("varargs...") >>)
        /\ \A i \in DOMAIN scopes :
               RecorderScope(i) =>
                   (Len(scopes[i].ids) = 1 <=>
                        (theMethod.Variadic = Nil \/ Len(theMethod.In) = 0))
        /\ (Len(theMethod.In) = 0 /\ theMethod.Variadic = Param("a", int)) =>
               \E k \in DOMAIN buf :
                   LinesAt(k, << "\tmr.mock.ctrl.T.Helper()", RecorderCall("a...") >>)

\* Generate has returned on the method of the example
C7_Witness ==
    /\ pc = "generated"
    /\ theMethod = exVariadic
    /\ \E i \in DOMAIN scopes : RecorderScope(i) /\ scopes[i].ids = <<"mr", "varargs">>

\* block b1 comes before block b2 in the order of the claim
BlockBefore(b1, b2) ==
    \/ StrLess(b1.intf, b2.intf)
    \/ b1.intf = b2.intf /\ StrLess(b1.method, b2.method)

(***************************************************************************)
(* C8, as claimed: interface blocks are emitted in ascending order of      *)
(* interface name and, within an interface, method blocks in ascending     *)
(* order of method name, whatever the order of the model.                  *)
(***************************************************************************)
C8_Original ==
    \A i, j \in DOMAIN blocks : i < j => BlockBefore(blocks[i], blocks[j])

\* the blocks of the first n interfaces of the model, each followed by its
\* methods' names in ascending order
RECURSIVE ExpectedBlocks(_, _)
ExpectedBlocks(interfaces, n) ==
    IF n = 0 THEN <<>>
    ELSE LET intf == interfaces[n]
             names == SortStrings({intf.Methods[k].Name : k \in DOMAIN intf.Methods})
         IN  ExpectedBlocks(interfaces, n - 1)
                 \o << [intf |-> intf.Name, method |-> <<>>] >>
                 \o [k \in DOMAIN names |-> [intf |-> intf.Name, method |-> names[k]]]

(***************************************************************************)
(* C8, amended: interface blocks are emitted in the order the model lists  *)
(* the interfaces; within each interface the method blocks are in          *)
(* ascending order of method name, whatever order the model lists them in, *)
(* so that two models that differ only in the order of their methods yield *)
(* the same sequence of blocks.                                            *)
(***************************************************************************)
C8_BlocksInModelOrderMethodsSorted ==
    blocks = ExpectedBlocks(pkgIn.Interfaces, intfIdx)

\* Generate has returned on a model that lists B before A, in both interfaces
C8_Witness ==
    /\ pc = "generated"
    /\ Len(pkgIn.Interfaces) = 2
    /\ pkgIn.Interfaces[1].Name = <<"B">>
    /\ pkgIn.Interfaces[1].Methods = <<mB, mA>>
    /\ pkgIn.Interfaces[2].Methods = <<mB, mA>>
    /\ Len(blocks) = 6

(***************************************************************************)
(* C9: the Package model handed to Generate is unchanged when Generate     *)
(* returns: every interface has the same methods in the same order.        *)
(***************************************************************************)
C9_ModelUnchanged == pc = "generated" => pkg = pkgIn

\* os.Create is called only on a destination that differs from the output
CreatedOnlyIfDifferent ==
    pc = "Create" => (~fs.exists \/ fs.content # output)

\* whether the destination file exists, and its lines
File(f) == <<f.exists, f.content>>

\* every os.Create and Write was the first run's, and every run left the
\* destination as the first run left it
NoWriteAfterFirstRun ==
    /\ \A i \in DOMAIN fileOps : fileOps[i].run = 1
    /\ \A k \in DOMAIN runs : File(runs[k].fs) = File(runs[1].fs)
    /\ (run > 1 /\ pc \in {"done", "fatal"}) => File(fs) = File(runs[1].fs)

IsPrefix(s, t) == Len(s) <= Len(t) /\ s = SubSeq(t, 1, Len(s))

\* dst.Write has been called in this run
WroteThisRun ==
    IF destination
    THEN Len(fileOps) > 0 /\ fileOps[Len(fileOps)] = [run |-> run, op |-> "Write"]
    ELSE pc = "done" \/ (pc = "fatal" /\ ~formatFails)

\* the lines that this run's dst.Write has written
Written == IF destination THEN fs.content ELSE stdout

\* a run whose formatting pass fails ends before main touches the destination
\* or os.Stdout
FormatFailureWritesNothing ==
    /\ [](formatFails =>
             /\ pc \notin {"MkdirAll", "ReadFile", "Create", "Write", "done"}
             /\ fileOps = <<>>
             /\ stdout = <<>>)
    /\ [][formatFails => UNCHANGED <<fs, fileOps, stdout>>]_vars

(***************************************************************************)
(* C11, as claimed: in every run, what dst.Write has written to the        *)
(* destination or to standard output is exactly the result of the          *)
(* formatting pass on the text Generate wrote; and when that pass fails    *)
(* the run ends fatally before the destination's directory or file is      *)
(* created, truncated or written, and the destination stays as it was.     *)
(***************************************************************************)
C11_Original ==
    /\ []((WroteThisRun /\ ~formatFails) => Written = formatSource(buf, imported))
    /\ FormatFailureWritesNothing

(***************************************************************************)
(* C11, amended: what dst.Write has written is the result of the           *)
(* formatting pass, exactly that when Write returned without an error and  *)
(* a beginning of it when Write failed (line 209), and never the text as   *)
(* Generate wrote it; the part about a failing formatting pass is as       *)
(* claimed.                                                                *)
(***************************************************************************)
C11_OnlyFormattedTextWritten ==
    /\ []((WroteThisRun /\ ~formatFails) =>
             /\ output = formatSource(buf, imported)
             /\ IsPrefix(Written, output)
             /\ pc = "done" => Written = output)
    /\ FormatFailureWritesNothing

\* the formatting pass failed on a nonempty text, the run has ended, and the
\* destination's old content is still there
C11_Witness ==
    /\ destination
    /\ formatFails
    /\ pc = "fatal"
    /\ Len(buf) > 0
    /\ fs = [dir |-> TRUE, exists |-> TRUE, content |-> << "// old" >>]

\* a list of named parameters as the claim renders it: "name type" entries,
\* the type left out exactly when the next entry of the list has the same one
ClaimedArgList(names, types) ==
    [i \in DOMAIN names |->
        IF i < Len(names) /\ types[i] = types[i + 1]
        THEN names[i]
        ELSE names[i] \o " " \o types[i]]

\* the type of a parameter as it is rendered in the file
RenderedType(param) == TypeString(param.Type, packageMap, outputPackagePath)

\* the parameters of the forwarding method as the claim renders them: the
\* fixed ones, the last of them with its type, then the variadic one
ClaimedParameters(m) ==
    Join(ClaimedArgList([i \in DOMAIN m.In |-> m.In[i].Name],
                        [i \in DOMAIN m.In |-> RenderedType(m.In[i])])
             \o (IF m.Variadic = Nil THEN <<>>
                 ELSE << m.Variadic.Name \o " ..." \o RenderedType(m.Variadic) >>),
         ", ")

\* the parameters of the call wrapper's Return as the claim renders them
ClaimedResults(m) ==
    Join(ClaimedArgList([i \in DOMAIN m.Out |-> m.Out[i].Name],
                        [i \in DOMAIN m.Out |-> RenderedType(m.Out[i])]),
         ", ")

\* the result types after the parameters of the forwarding method
ResultTypes(m) ==
    LET rets == Join([i \in DOMAIN m.Out |-> RenderedType(m.Out[i])], ", ")
    IN  IF Len(m.Out) = 0 THEN ""
        ELSE IF Len(m.Out) = 1 THEN " " \o rets
        ELSE " (" \o rets \o ")"

(***************************************************************************)
(* C12: makeArgString renders a parameter list left to right as "name      *)
(* type" entries joined by ", ", leaving out the type of an entry exactly  *)
(* when the next entry exists and has the same rendered type: (x int,      *)
(* y int, z string) renders as "x, y int, z string"; the last entry always *)
(* has its type; and a variadic parameter renders last, its element type   *)
(* after an ellipsis, never merged with the entry before it.  This is so   *)
(* in both places where makeArgString is used: the forwarding method's     *)
(* signature and the call wrapper's Return.                                *)
(***************************************************************************)
C12_ArgStringOmitsRepeatedTypes ==
    intfIdx = 1 =>
        /\ \E k \in DOMAIN buf :
               buf[k] = "func (m *MockA) M(" \o ClaimedParameters(theMethod) \o ")"
                            \o ResultTypes(theMethod) \o " {"
        /\ typed =>
               \E k \in DOMAIN buf :
                   buf[k] = "func (c *MockAMCall) Return(" \o ClaimedResults(theMethod)
                                \o ") *MockAMCall {"
        /\ (theMethod.Variadic = Nil /\ theMethod.Out = <<>>
            /\ theMethod.In = <<Param("x", int), Param("y", int), Param("z", string)>>) =>
               \E k \in DOMAIN buf : buf[k] = "func (m *MockA) M(x, y int, z string) {"

\* Generate has returned on M(x int, y int, v ...int) (r t.T, s t.T): a type
\* is left out among the parameters and among the results, and the variadic
\* parameter, of the element type of the entry before it, stands by itself
C12_Witness ==
    /\ pc = "generated"
    /\ typed
    /\ theMethod = Method(<<"M">>, <<Param("x", int), Param("y", int)>>,
                          <<Param("r", Named(pHT, "T")), Param("s", Named(pHT, "T"))>>,
                          Param("v", int))
    /\ \E k \in DOMAIN buf :
           buf[k] = "func (m *MockA) M(x, y int, v ...int) (t.T, t.T) {"
    /\ \E k \in DOMAIN buf :
           buf[k] = "func (c *MockAMCall) Return(r, s t.T) *MockAMCall {"

\* a character that may stand in a name: a letter, a digit or "_"
IsNameChar(c) == IsLetter(c) \/ IsDigit(c) \/ c = "_"

\* the alias loop is over
AliasesDone == pc = "aliases" /\ x = Len(sortedPaths)

(***************************************************************************)
(* C13, as claimed: the name made of the final segment of an import path   *)
(* is the segment without its characters outside [A-Za-z0-9_] (checked for *)
(* the segments whose first remaining character is a letter or "_", the    *)
(* segment "_" aside), and a segment of characters outside that set only,  *)
(* of any length, gives the placeholder "x".                               *)
(***************************************************************************)
C13_Original ==
    AliasesDone =>
        \A pth \in pkgIn.Imports :
            LET kept == SelectSeq(pathBase(pth), IsNameChar)
            IN  /\ kept = <<>> => packageMap[pth] = "x"
                /\ (kept # <<>> /\ kept # <<"_">> /\ ~IsDigit(kept[1])) =>
                       packageMap[pth] = Str(kept)

\* the segment with "_" in the place of each character that is no letter, no
\* digit and no "_", and of a digit that comes first
Replaced(seg) ==
    [i \in DOMAIN seg |->
        IF IsLetter(seg[i]) \/ seg[i] = "_" \/ (i > 1 /\ IsDigit(seg[i]))
        THEN seg[i] ELSE "_"]

(***************************************************************************)
(* C13, amended: the name has one character for each character of the      *)
(* segment: the character itself when it is a letter, "_" or, after the    *)
(* first place, a digit, and "_" in the place of any other; so it has      *)
(* only characters of [A-Za-z0-9_] and starts with a letter or "_".  The   *)
(* placeholder "x" is the name exactly when that text is the single        *)
(* character "_"; a longer segment of invalid characters gives as many     *)
(* "_".                                                                    *)
(***************************************************************************)
C13_SanitizeReplaces ==
    AliasesDone =>
        \A pth \in pkgIn.Imports :
            LET seg == pathBase(pth)
            IN  /\ packageMap[pth] =
                       (IF Replaced(seg) = <<"_">> THEN "x" ELSE Str(Replaced(seg)))
                /\ Len(packageMap[pth]) = Len(seg)
                /\ \A i \in DOMAIN seg : IsNameChar(Replaced(seg)[i])
                /\ IsLetter(Replaced(seg)[1]) \/ Replaced(seg)[1] = "_"

\* the loop is over for the path p/2-a: the digit that comes first and the
\* "-" are both replaced, and nothing is dropped
C13_Witness ==
    /\ AliasesDone
    /\ pkgIn.Imports = {<<"p", "/", "2", "-", "a">>}
    /\ packageMap[<<"p", "/", "2", "-", "a">>] = "__a"

\* some interface of the package has a method
HasMethods(p) == \E i \in DOMAIN p.Interfaces : Len(p.Interfaces[i].Methods) > 0

(***************************************************************************)
(* C14: the import paths that Generate hands to alias resolution           *)
(* (sortedPaths) always hold gomock's path; besides the model's own        *)
(* imports and gomock's path they hold "reflect" and nothing else, and     *)
(* "reflect" if and only if some interface of the package has a method: a  *)
(* package whose interfaces all have no method gets no "reflect" from      *)
(* Generate.                                                               *)
(***************************************************************************)
C14_ReflectOnlyWithMethods ==
    pc # "Generate" =>
        /\ gomockImportPath \in Range(sortedPaths)
        /\ Imports(pkgIn) \subseteq Range(sortedPaths)
        /\ Range(sortedPaths) \ (Imports(pkgIn) \cup {gomockImportPath}) =
               (IF HasMethods(pkgIn) THEN {reflectPath} ELSE {}) \ Imports(pkgIn)
        /\ reflectPath \in Range(sortedPaths) <=>
               (HasMethods(pkgIn) \/ reflectPath \in Imports(pkgIn))

\* Generate has returned on a package whose first interface has no method
\* and whose second has two: "reflect" was added
C14_Witness ==
    /\ pc = "generated"
    /\ Len(pkgIn.Interfaces) = 2
    /\ pkgIn.Interfaces[1].Methods = <<>>
    /\ pkgIn.Interfaces[2].Methods = <<mB, mA>>
    /\ reflectPath \in Range(sortedPaths)
    /\ reflectPath \notin Imports(pkgIn)

(***************************************************************************)
(* C15: the emitted code names gomock and reflect by the fixed qualifiers  *)
(* "gomock" and "reflect"; so, whatever the import paths, the `go list`    *)
(* answers and the -imports pairs, after the alias loop the alias of       *)
(* gomock's path is "gomock", the alias of "reflect" is "reflect", and no  *)
(* other path has either alias.                                            *)
(***************************************************************************)
C15_RuntimeAliasesFixed ==
    AliasesDone =>
        /\ packageMap[gomockImportPath] = "gomock"
        /\ reflectPath \in DOMAIN packageMap => packageMap[reflectPath] = "reflect"
        /\ \A pth \in DOMAIN packageMap :
               /\ packageMap[pth] = "gomock" => pth = gomockImportPath
               /\ packageMap[pth] = "reflect" => pth = reflectPath

=============================================================================
